---- MODULE Spec2Model ----
(***************************************************************************)
(* Model of the chapter / paragraph inference engine of txt_to_epub.py.    *)
(*                                                                         *)
(* A string is a sequence of characters; a character is a short TLA+       *)
(* string.  Non-ASCII characters of the source are written with ASCII      *)
(* stand-ins (FW is U+3000, DI is U+7B2C, ZHANG is U+7AE0, ...).           *)
(*                                                                         *)
(* Spec     : the chapter splitter loop of txt_to_epub (lines 294-325),    *)
(*            calling process_paragraphs as a function.                    *)
(* SpecPara : process_paragraphs (lines 169-291) executed line by line on  *)
(*            one chapter's line sequence.                                 *)
(***************************************************************************)
EXTENDS Integers, Sequences, FiniteSets, TLC

VARIABLES
    lines,           \* content.split("\n")
    paragraph_mode,  \* parameter of txt_to_epub
    force_indent,    \* parameter of txt_to_epub
    idx,             \* position of the `for line in lines` loop
    chapters,        \* list of (title, body) tuples
    current_title,
    chapter_lines,
    pc,              \* "loop" | "done" | "idle"
    text_lines,      \* arguments of process_paragraphs
    mode,
    add_indent,
    branch,          \* the branch of process_paragraphs that was entered
    k,               \* position of its `for line in text_lines` loop
    paragraphs,
    current_para,
    ppc              \* "start" | "loop" | "done" | "idle"

vars == <<lines, paragraph_mode, force_indent, idx, chapters, current_title,
          chapter_lines, pc, text_lines, mode, add_indent, branch, k,
          paragraphs, current_para, ppc>>

splitVars == <<lines, paragraph_mode, force_indent, idx, chapters,
               current_title, chapter_lines, pc>>

paraVars == <<text_lines, mode, add_indent, branch, k, paragraphs,
              current_para, ppc>>

----------------------------------------------------------------------------
(* Bounds *)

MaxLines == 4
\* longest document of Spec, in lines

MaxChapterLines == 4
\* longest chapter line sequence of SpecPara

----------------------------------------------------------------------------
(* Characters *)

FW == "FW"
\* U+3000, the full-width space
SP == " "
TAB == "TAB"
NL == "NL"
DI == "DI"
\* U+7B2C, first character of a default heading
ZHANG == "ZHANG"
\* U+7AE0, the chapter character of a default heading

\* the characters str.strip() removes, among those of the model
Whitespace == {FW, SP, TAB, NL}

\* the characters of the string literal at line 276
EndOfParaChars ==
    {"ZH_STOP", "ZH_EXCL", "ZH_QUES", ".", "!", "?", "DQUOTE", "'",
     "ZH_RCORNER", "ZH_RBOOK", ")", "ZH_RPAREN"}

PREFACE == <<"QIAN", "YAN">>
\* the title "前言" the first chapter starts with

Modes == {"line", "blank", "smart"}

----------------------------------------------------------------------------
(* String functions of Python *)

RECURSIVE lstrip(_, _)
lstrip(s, chars) ==
    IF s = <<>> THEN s
    ELSE IF Head(s) \in chars THEN lstrip(Tail(s), chars)
    ELSE s

RECURSIVE rstrip(_, _)
rstrip(s, chars) ==
    IF s = <<>> THEN s
    ELSE IF s[Len(s)] \in chars THEN rstrip(SubSeq(s, 1, Len(s) - 1), chars)
    ELSE s

strip(s) == rstrip(lstrip(s, Whitespace), Whitespace)

startswith(s, prefix) ==
    /\ Len(s) >= Len(prefix)
    /\ SubSeq(s, 1, Len(prefix)) = prefix

RECURSIVE join(_, _)
join(sep, strs) ==
    IF strs = <<>> THEN <<>>
    ELSE IF Len(strs) = 1 THEN strs[1]
    ELSE strs[1] \o sep \o join(sep, Tail(strs))

----------------------------------------------------------------------------
(* Line classifier *)

has_indent(line) ==
    IF line = <<>> THEN FALSE
    ELSE IF startswith(line, <<FW>>) THEN TRUE
    ELSE IF startswith(line, <<SP, SP>>) \/ startswith(line, <<TAB>>) THEN TRUE
    ELSE FALSE

remove_indent(line) ==
    IF line = <<>> THEN <<>>
    ELSE lstrip(lstrip(line, {FW}), {SP, TAB})

\* chapter_regex.match(s) for the default chapter_pattern ^第.+章.*$ :
\* 第, then at least one character, then 章, then anything
chapter_regex_match(s) ==
    /\ Len(s) >= 3
    /\ s[1] = DI
    /\ \E j \in 3..Len(s) : s[j] = ZHANG

----------------------------------------------------------------------------
(* Paragraph segmenter: the body of each loop of process_paragraphs as a   *)
(* function of the loop's state st = [paragraphs, current_para]            *)

indent_str(flag) == IF flag THEN <<FW, FW>> ELSE <<>>

\* variant: the indent marker written in front of the <p> tag
format_p_indent_outside(ind, text) ==
    ind \o <<"<", "p", ">">> \o text \o <<"<", "/", "p", ">">>

\* f"<p>{indent_str}{text}</p>"
format_p(ind, text) == <<"<", "p", ">">> \o ind \o text \o <<"<", "/", "p", ">">>

\* paragraphs.append(f"<p>{indent_str}{''.join(current_para)}</p>"); current_para = []
flush(st, ind) ==
    [paragraphs |-> Append(st.paragraphs, format_p(ind, join(<<>>, st.current_para))),
     current_para |-> <<>>]

\* variant: the flush without its `if current_para:` guard
flush_if_any_unguarded(st, ind) == flush(st, ind)

\* `if current_para:` followed by the flush
flush_if_any(st, ind) ==
    IF st.current_para # <<>> THEN flush(st, ind) ELSE st

push(st, text) ==
    [paragraphs |-> st.paragraphs, current_para |-> Append(st.current_para, text)]

\* mode == "line"
line_step(st, original_line, ind) ==
    LET line == strip(original_line) IN
    IF line = <<>> THEN st
    ELSE IF has_indent(original_line)
    THEN [paragraphs |-> Append(st.paragraphs,
                                format_p(ind, strip(remove_indent(original_line)))),
          current_para |-> st.current_para]
    ELSE [paragraphs |-> Append(st.paragraphs, format_p(ind, line)),
          current_para |-> st.current_para]

\* variant: an indented line closes the paragraph and is itself forgotten
blank_step_drops_line(st, line, ind) ==
    LET stripped_line == strip(line) IN
    IF stripped_line = <<>> THEN flush_if_any(st, ind)
    ELSE IF has_indent(line) /\ st.current_para # <<>>
    THEN flush(st, ind)
    ELSE IF has_indent(line)
    THEN push(st, strip(remove_indent(line)))
    ELSE push(st, stripped_line)

\* variant: indentation is stripped but does not start a paragraph
blank_step_no_indent_break(st, line, ind) ==
    LET stripped_line == strip(line) IN
    IF stripped_line = <<>> THEN flush_if_any(st, ind)
    ELSE IF has_indent(line)
    THEN push(st, strip(remove_indent(line)))
    ELSE push(st, stripped_line)

\* mode == "blank"
blank_step(st, line, ind) ==
    LET stripped_line == strip(line) IN
    IF stripped_line = <<>> THEN flush_if_any(st, ind)
    ELSE IF has_indent(line) /\ st.current_para # <<>>
    THEN push(flush(st, ind), strip(remove_indent(line)))
    ELSE IF has_indent(line)
    THEN push(st, strip(remove_indent(line)))
    ELSE push(st, stripped_line)

\* variant: blank lines are skipped without ending the paragraph
indent_step_skips_blank(st, line, ind) ==
    LET stripped_line == strip(line) IN
    IF stripped_line = <<>> THEN st
    ELSE IF has_indent(line)
    THEN push(flush_if_any(st, ind), strip(remove_indent(line)))
    ELSE push(st, stripped_line)

\* mode == "smart", has_indented_lines
indent_step(st, line, ind) ==
    LET stripped_line == strip(line) IN
    IF stripped_line = <<>> THEN flush_if_any(st, ind)
    ELSE IF has_indent(line)
    THEN push(flush_if_any(st, ind), strip(remove_indent(line)))
    ELSE push(st, stripped_line)

\* variant: a line that ends a sentence is taken as the start of a paragraph
punct_step_flush_first(st, raw, ind) ==
    LET line == strip(raw) IN
    IF line = <<>> THEN st
    ELSE LET is_end_of_para == line[Len(line)] \in EndOfParaChars IN
         IF is_end_of_para THEN push(flush_if_any(st, ind), line)
         ELSE push(st, line)

\* mode == "smart", neither indentation nor blank lines
punct_step(st, raw, ind) ==
    LET line == strip(raw) IN
    IF line = <<>> THEN st
    ELSE LET is_end_of_para == line[Len(line)] \in EndOfParaChars IN
         IF is_end_of_para THEN flush(push(st, line), ind)
         ELSE push(st, line)

has_indented_lines(tl) ==
    \E i \in 1..Len(tl) : strip(tl[i]) # <<>> /\ has_indent(tl[i])

has_blank_lines(tl) ==
    \E i \in 1..Len(tl) : strip(tl[i]) = <<>>

\* variant: blank lines tested before indentation
smart_branch_blank_first(tl) ==
    IF has_blank_lines(tl) THEN "blank"
    ELSE IF has_indented_lines(tl) THEN "indent"
    ELSE "punct"

\* the if / elif / else chain of mode == "smart"
smart_branch(tl) ==
    IF has_indented_lines(tl) THEN "indent"
    ELSE IF has_blank_lines(tl) THEN "blank"
    ELSE "punct"

\* the branch of process_paragraphs a call ends up in; smart delegates to
\* blank by calling process_paragraphs(text_lines, "blank", add_indent)
select_branch(tl, m) ==
    IF m = "line" THEN "line"
    ELSE IF m = "blank" THEN "blank"
    ELSE smart_branch(tl)

step(b, st, line, ind) ==
    CASE b = "line" -> line_step(st, line, ind)
      [] b = "blank" -> blank_step(st, line, ind)
      [] b = "indent" -> indent_step(st, line, ind)
      [] b = "punct" -> punct_step(st, line, ind)

\* what follows the loop: the trailing flush, which the line branch lacks
finish(b, st, ind) ==
    IF b = "line" THEN st ELSE flush_if_any(st, ind)

RECURSIVE run_loop(_, _, _, _)
run_loop(b, st, tl, ind) ==
    IF tl = <<>> THEN st
    ELSE run_loop(b, step(b, st, Head(tl), ind), Tail(tl), ind)

process_paragraphs(tl, m, flag) ==
    LET b == select_branch(tl, m)
        st0 == [paragraphs |-> <<>>, current_para |-> <<>>]
    IN finish(b, run_loop(b, st0, tl, indent_str(flag)), indent_str(flag)).paragraphs

----------------------------------------------------------------------------
(* Inputs *)

L_empty == <<>>
L_spaces == <<SP, SP>>
L_plain == <<"a">>
L_stop == <<"b", ".">>
L_fw == <<FW, FW, "c">>
L_sp2 == <<SP, SP, "d", "ZH_STOP">>
L_sp1 == <<SP, "e">>
L_trail == <<"g", "!", SP>>
L_head1 == <<DI, "1", ZHANG>>
L_head2 == <<FW, DI, "2", ZHANG, SP, "t", SP>>
L_nohead == <<DI, ZHANG>>
L_tab == <<TAB, "f", "?">>

\* lines of a document
DocLines ==
    {L_empty, L_spaces, L_stop, L_fw, L_head1, L_head2, L_nohead}

\* lines of a chapter: the splitter stores every blank line as "" and no
\* heading
ChapterLines ==
    {L_empty, L_plain, L_stop, L_fw, L_sp2, L_sp1, L_trail, L_tab, L_nohead}

NonEmptySeqs(S, n) == UNION {[1..m -> S] : m \in 1..n}

----------------------------------------------------------------------------
(* Chapter splitter: the loop of txt_to_epub, one action per iteration     *)

paraIdle ==
    /\ text_lines = <<>>
    /\ mode = "smart"
    /\ add_indent = FALSE
    /\ branch = "none"
    /\ k = 0
    /\ paragraphs = <<>>
    /\ current_para = <<>>
    /\ ppc = "idle"

Init ==
    /\ lines \in NonEmptySeqs(DocLines, MaxLines)
    /\ paragraph_mode \in Modes
    /\ force_indent \in BOOLEAN
    /\ idx = 1
    /\ chapters = <<>>
    /\ current_title = PREFACE
    /\ chapter_lines = <<>>
    /\ pc = "loop"
    /\ paraIdle

\* variant: the chapter appended without the `if chapter_content:` test
emit_unchecked(chs, title, cl, m, flag) ==
    IF cl # <<>>
    THEN Append(chs, <<title, join(<<NL>>, process_paragraphs(cl, m, flag))>>)
    ELSE chs

\* `if chapter_lines:` ... chapters.append((current_title, "\n".join(chapter_content)))
emit(chs, title, cl, m, flag) ==
    IF cl # <<>>
    THEN LET chapter_content == process_paragraphs(cl, m, flag) IN
         IF chapter_content # <<>>
         THEN Append(chs, <<title, join(<<NL>>, chapter_content)>>)
         ELSE chs
    ELSE chs

\* variant: a blank line skipped without being kept in chapter_lines
SkipBlank_not_kept ==
    /\ pc = "loop"
    /\ idx <= Len(lines)
    /\ strip(lines[idx]) = <<>>
    /\ idx' = idx + 1
    /\ UNCHANGED <<lines, paragraph_mode, force_indent, chapters, current_title,
                   chapter_lines, pc>>
    /\ UNCHANGED paraVars

\* if not line.strip(): chapter_lines.append(""); continue
SkipBlank ==
    /\ pc = "loop"
    /\ idx <= Len(lines)
    /\ strip(lines[idx]) = <<>>
    /\ chapter_lines' = Append(chapter_lines, <<>>)
    /\ idx' = idx + 1
    /\ UNCHANGED <<lines, paragraph_mode, force_indent, chapters, current_title, pc>>
    /\ UNCHANGED paraVars

\* variant: current_title assigned before the collected chapter is emitted
NewChapter_title_first ==
    /\ pc = "loop"
    /\ idx <= Len(lines)
    /\ strip(lines[idx]) # <<>>
    /\ chapter_regex_match(strip(lines[idx]))
    /\ chapters' = emit(chapters, strip(lines[idx]), chapter_lines, paragraph_mode, force_indent)
    /\ current_title' = strip(lines[idx])
    /\ chapter_lines' = <<>>
    /\ idx' = idx + 1
    /\ UNCHANGED <<lines, paragraph_mode, force_indent, pc>>
    /\ UNCHANGED paraVars

\* if match: emit the collected chapter and start a new one
NewChapter ==
    /\ pc = "loop"
    /\ idx <= Len(lines)
    /\ strip(lines[idx]) # <<>>
    /\ chapter_regex_match(strip(lines[idx]))
    /\ chapters' = emit(chapters, current_title, chapter_lines, paragraph_mode, force_indent)
    /\ current_title' = strip(lines[idx])
    /\ chapter_lines' = <<>>
    /\ idx' = idx + 1
    /\ UNCHANGED <<lines, paragraph_mode, force_indent, pc>>
    /\ UNCHANGED paraVars

\* else: chapter_lines.append(line)
Collect ==
    /\ pc = "loop"
    /\ idx <= Len(lines)
    /\ strip(lines[idx]) # <<>>
    /\ ~chapter_regex_match(strip(lines[idx]))
    /\ chapter_lines' = Append(chapter_lines, lines[idx])
    /\ idx' = idx + 1
    /\ UNCHANGED <<lines, paragraph_mode, force_indent, chapters, current_title, pc>>
    /\ UNCHANGED paraVars

\* after the loop: emit the last chapter
LastChapter ==
    /\ pc = "loop"
    /\ idx > Len(lines)
    /\ chapters' = emit(chapters, current_title, chapter_lines, paragraph_mode, force_indent)
    /\ pc' = "done"
    /\ UNCHANGED <<lines, paragraph_mode, force_indent, idx, current_title, chapter_lines>>
    /\ UNCHANGED paraVars

Next == SkipBlank \/ NewChapter \/ Collect \/ LastChapter

Spec == Init /\ [][Next]_vars

----------------------------------------------------------------------------
(* Paragraph segmenter, line by line, on one chapter's line sequence       *)

splitIdle ==
    /\ lines = <<>>
    /\ paragraph_mode = "smart"
    /\ force_indent = FALSE
    /\ idx = 0
    /\ chapters = <<>>
    /\ current_title = PREFACE
    /\ chapter_lines = <<>>
    /\ pc = "idle"

InitPara ==
    /\ text_lines \in NonEmptySeqs(ChapterLines, MaxChapterLines)
    /\ mode \in Modes
    /\ add_indent \in BOOLEAN
    /\ branch = "none"
    /\ k = 0
    /\ paragraphs = <<>>
    /\ current_para = <<>>
    /\ ppc = "start"
    /\ splitIdle

loopState == [paragraphs |-> paragraphs, current_para |-> current_para]

\* paragraphs = []; the dispatch on mode and, for smart, on the two any(...)
PStart ==
    /\ ppc = "start"
    /\ branch' = select_branch(text_lines, mode)
    /\ k' = 1
    /\ ppc' = "loop"
    /\ UNCHANGED <<text_lines, mode, add_indent, paragraphs, current_para>>
    /\ UNCHANGED splitVars

\* one iteration of the loop of mode == "line"
PLine ==
    /\ ppc = "loop" /\ branch = "line" /\ k <= Len(text_lines)
    /\ LET st == line_step(loopState, text_lines[k], indent_str(add_indent)) IN
          /\ paragraphs' = st.paragraphs
          /\ current_para' = st.current_para
    /\ k' = k + 1
    /\ UNCHANGED <<text_lines, mode, add_indent, branch, ppc>>
    /\ UNCHANGED splitVars

\* one iteration of the loop of mode == "blank"
PBlank ==
    /\ ppc = "loop" /\ branch = "blank" /\ k <= Len(text_lines)
    /\ LET st == blank_step(loopState, text_lines[k], indent_str(add_indent)) IN
          /\ paragraphs' = st.paragraphs
          /\ current_para' = st.current_para
    /\ k' = k + 1
    /\ UNCHANGED <<text_lines, mode, add_indent, branch, ppc>>
    /\ UNCHANGED splitVars

\* one iteration of the loop of the has_indented_lines branch
PIndent ==
    /\ ppc = "loop" /\ branch = "indent" /\ k <= Len(text_lines)
    /\ LET st == indent_step(loopState, text_lines[k], indent_str(add_indent)) IN
          /\ paragraphs' = st.paragraphs
          /\ current_para' = st.current_para
    /\ k' = k + 1
    /\ UNCHANGED <<text_lines, mode, add_indent, branch, ppc>>
    /\ UNCHANGED splitVars

\* one iteration of the loop of the punctuation branch
PPunct ==
    /\ ppc = "loop" /\ branch = "punct" /\ k <= Len(text_lines)
    /\ LET st == punct_step(loopState, text_lines[k], indent_str(add_indent)) IN
          /\ paragraphs' = st.paragraphs
          /\ current_para' = st.current_para
    /\ k' = k + 1
    /\ UNCHANGED <<text_lines, mode, add_indent, branch, ppc>>
    /\ UNCHANGED splitVars

\* the trailing flush and `return paragraphs`
PFinish ==
    /\ ppc = "loop" /\ k > Len(text_lines)
    /\ LET st == finish(branch, loopState, indent_str(add_indent)) IN
          /\ paragraphs' = st.paragraphs
          /\ current_para' = st.current_para
    /\ ppc' = "done"
    /\ UNCHANGED <<text_lines, mode, add_indent, branch, k>>
    /\ UNCHANGED splitVars

NextPara == PStart \/ PLine \/ PBlank \/ PIndent \/ PPunct \/ PFinish

SpecPara == InitPara /\ [][NextPara]_vars

----------------------------------------------------------------------------
(* Vocabulary of the properties, written without the segmenter's functions *)

Flatten(strs) == join(<<>>, strs)

RECURSIVE SortedSeq(_)
SortedSeq(S) ==
    IF S = {} THEN <<>>
    ELSE LET m == CHOOSE x \in S : \A y \in S : x <= y
         IN <<m>> \o SortedSeq(S \ {m})

\* the strings of s between the occurrences of NL
RECURSIVE SplitNL(_)
SplitNL(s) ==
    IF \A i \in 1..Len(s) : s[i] # NL THEN <<s>>
    ELSE LET n == CHOOSE i \in 1..Len(s) :
                      s[i] = NL /\ \A j \in 1..(i - 1) : s[j] # NL
         IN <<SubSeq(s, 1, n - 1)>> \o SplitNL(SubSeq(s, n + 1, Len(s)))

IsWrapped(p, flag) ==
    /\ Len(p) >= 7 + Len(indent_str(flag))
    /\ SubSeq(p, 1, 3 + Len(indent_str(flag))) = <<"<", "p", ">">> \o indent_str(flag)
    /\ SubSeq(p, Len(p) - 3, Len(p)) = <<"<", "/", "p", ">">>

\* the text of a paragraph: what is left without the <p> wrapper and the
\* force-indent marker
ParaText(p, flag) == SubSeq(p, 4 + Len(indent_str(flag)), Len(p) - 4)

\* the paragraphs of a chapter body
BodyParas(body) == IF body = <<>> THEN <<>> ELSE SplitNL(body)

BodyText(body, flag) ==
    Flatten([j \in 1..Len(BodyParas(body)) |-> ParaText(BodyParas(body)[j], flag)])

Trimmed(tl) == [i \in 1..Len(tl) |-> strip(tl[i])]

IsBlankLine(l) == \A i \in 1..Len(l) : l[i] \in Whitespace

\* starts with a full-width space, a tab or two ordinary spaces
IsIndentedLine(l) ==
    /\ l # <<>>
    /\ \/ l[1] \in {FW, TAB}
       \/ Len(l) >= 2 /\ l[1] = SP /\ l[2] = SP

EndsWithTerminator(l) ==
    /\ strip(l) # <<>>
    /\ strip(l)[Len(strip(l))] \in EndOfParaChars

IsHeadingLine(l) == ~IsBlankLine(l) /\ chapter_regex_match(strip(l))

\* the trimmed text of lines[a..b], blank and heading lines left out
ContentText(a, b) ==
    Flatten([i \in 1..(b - a + 1) |->
                IF IsBlankLine(lines[a + i - 1]) \/ IsHeadingLine(lines[a + i - 1])
                THEN <<>> ELSE strip(lines[a + i - 1])])

HeadingIdx == {i \in 1..Len(lines) : IsHeadingLine(lines[i])}

\* the end of the section that starts after position h (0 is the preface)
SectionEnd(h) ==
    IF \E i \in HeadingIdx : i > h
    THEN (CHOOSE i \in HeadingIdx : i > h /\ \A j \in HeadingIdx : j > h => i <= j) - 1
    ELSE Len(lines)

SectionTitle(h) == IF h = 0 THEN PREFACE ELSE strip(lines[h])

SectionText(h) == ContentText(h + 1, SectionEnd(h))

\* the sections that have content, in source order
FullSections ==
    SortedSeq({h \in HeadingIdx \cup {0} : SectionText(h) # <<>>})

----------------------------------------------------------------------------
(* Properties of the chapter splitter (Spec)                               *)

AllChapterText ==
    Flatten([j \in 1..Len(chapters) |-> BodyText(chapters[j][2], force_indent)])

AllWrapped ==
    \A j \in 1..Len(chapters) :
        \A i \in 1..Len(BodyParas(chapters[j][2])) :
            IsWrapped(BodyParas(chapters[j][2])[i], force_indent)

\* C1: when the conversion is done, in every paragraph mode, the text of all
\* paragraphs of all chapters, concatenated in order and read without the
\* <p> wrapper and the force-indent marker, is the concatenation in source
\* order of the trimmed content of every line that is neither blank nor a
\* heading.
C1_TextPreserved ==
    pc = "done" =>
        /\ AllWrapped
        /\ AllChapterText = ContentText(1, Len(lines))

C1_Witness ==
    /\ pc = "done"
    /\ paragraph_mode = "smart"
    /\ Len(chapters) = 2
    /\ \E i \in 1..Len(lines) : IsBlankLine(lines[i])
    /\ \E i \in 1..Len(lines) : IsIndentedLine(lines[i]) /\ ~IsHeadingLine(lines[i])

\* C2: the chapters emitted so far are, in order, the first sections of the
\* input that have content: each one's title is the trimmed heading that
\* opens the section (the preface label for the lines before the first
\* heading) and its body holds exactly the trimmed non-heading lines of that
\* section; when the conversion is done every such section has its chapter.
C2_TitlesFollowHeadings ==
    /\ Len(chapters) <= Len(FullSections)
    /\ \A j \in 1..Len(chapters) :
          /\ chapters[j][1] = SectionTitle(FullSections[j])
          /\ BodyText(chapters[j][2], force_indent) = SectionText(FullSections[j])
    /\ pc = "done" => Len(chapters) = Len(FullSections)

C2_Witness ==
    /\ pc = "done"
    /\ Len(chapters) = 2
    /\ chapters[1][1] = PREFACE
    /\ chapters[2][1] = <<DI, "2", ZHANG, SP, "t">>
    /\ lines[Len(lines)] # L_head2

\* C3: every chapter of the chapter list has at least one paragraph, and the
\* number of chapters never exceeds the number of sections that have a
\* non-blank content line: a title followed by no line or only by blank
\* lines, the preface included, is not in the list.
C3_NoEmptyChapter ==
    /\ \A j \in 1..Len(chapters) :
          /\ Len(BodyParas(chapters[j][2])) >= 1
          /\ \A i \in 1..Len(BodyParas(chapters[j][2])) :
                Len(BodyParas(chapters[j][2])[i]) >= 7
    /\ Len(chapters) <=
          Cardinality({h \in HeadingIdx \cup {0} :
                         \E i \in (h + 1)..SectionEnd(h) : ~IsBlankLine(lines[i])})

C3_Witness ==
    /\ pc = "done"
    /\ Len(lines) = 4
    /\ IsBlankLine(lines[1])
    /\ IsHeadingLine(lines[2])
    /\ IsHeadingLine(lines[3])
    /\ ~IsBlankLine(lines[4]) /\ ~IsHeadingLine(lines[4])
    /\ Len(chapters) = 1

\* the lines of the document as the splitter collects them
Collected == [i \in 1..Len(lines) |-> IF IsBlankLine(lines[i]) THEN <<>> ELSE lines[i]]

OnePrefaceChapter ==
    /\ Len(chapters) = 1
    /\ chapters[1][1] = PREFACE
    /\ chapters[1][2] =
          join(<<NL>>, process_paragraphs(Collected, paragraph_mode, force_indent))

\* C8 as stated: when no line matches the heading pattern the chapter list
\* is exactly one chapter, titled with the preface label, holding all the
\* paragraphs of the document.
C8_Original ==
    (pc = "done" /\ HeadingIdx = {}) => OnePrefaceChapter

\* C8 amended: when no line matches the heading pattern and the document has
\* at least one non-blank line, the chapter list is exactly one chapter,
\* titled with the preface label, holding all the paragraphs of the
\* document; when every line is blank the chapter list is empty.
C8_Amended ==
    (pc = "done" /\ HeadingIdx = {}) =>
        IF \E i \in 1..Len(lines) : ~IsBlankLine(lines[i])
        THEN OnePrefaceChapter
        ELSE chapters = <<>>

C8_Witness ==
    /\ pc = "done"
    /\ HeadingIdx = {}
    /\ Len(chapters) = 1
    /\ Len(BodyParas(chapters[1][2])) >= 2
    /\ \E i \in 1..Len(lines) : IsBlankLine(lines[i])

----------------------------------------------------------------------------
(* Properties of the paragraph segmenter (SpecPara)                        *)

NonBlankAt(i) == i \in 1..Len(text_lines) /\ ~IsBlankLine(text_lines[i])

AnyIndented == \E i \in 1..Len(text_lines) : NonBlankAt(i) /\ IsIndentedLine(text_lines[i])

AnyBlank == \E i \in 1..Len(text_lines) : IsBlankLine(text_lines[i])

RunStarts == {i \in 1..Len(text_lines) : NonBlankAt(i) /\ ~NonBlankAt(i - 1)}

MidRunIndented ==
    {i \in 1..Len(text_lines) :
        NonBlankAt(i) /\ NonBlankAt(i - 1) /\ IsIndentedLine(text_lines[i])}

\* C4: in blank mode the number of paragraphs is the number of maximal runs
\* of consecutive non-blank lines plus the number of indented lines that are
\* in a run but not first in it.
C4_BlankCount ==
    (ppc = "done" /\ mode = "blank") =>
        Len(paragraphs) = Cardinality(RunStarts) + Cardinality(MidRunIndented)

C4_Witness ==
    /\ ppc = "done"
    /\ mode = "blank"
    /\ Cardinality(RunStarts) = 2
    /\ Cardinality(MidRunIndented) = 1
    /\ Len(paragraphs) = 3

\* the paragraphs one branch alone produces on the whole chapter
WholeChapter(b) ==
    finish(b, run_loop(b, [paragraphs |-> <<>>, current_para |-> <<>>],
                       text_lines, indent_str(add_indent)),
           indent_str(add_indent)).paragraphs

\* C5: in smart mode the branch is the indentation branch if a non-blank
\* line of the chapter is indented, otherwise the blank algorithm if a line
\* is blank, otherwise the punctuation fallback; the branch does not change
\* during the chapter and the result is that branch applied to the whole
\* chapter.
C5_SmartPriority ==
    (mode = "smart" /\ ppc \in {"loop", "done"}) =>
        /\ branch = IF AnyIndented THEN "indent"
                    ELSE IF AnyBlank THEN "blank"
                    ELSE "punct"
        /\ ppc = "done" => paragraphs = WholeChapter(branch)

\* the example of the spec: indentation wins over the blank line
C5_Witness ==
    /\ ppc = "done"
    /\ mode = "smart"
    /\ add_indent
    /\ text_lines = <<L_fw, L_plain, L_empty, L_fw>>
    /\ branch = "indent"
    /\ paragraphs = << <<"<", "p", ">", FW, FW, "c", "a", "<", "/", "p", ">">>,
                       <<"<", "p", ">", FW, FW, "c", "<", "/", "p", ">">> >>

TermIdx == {i \in 1..Len(text_lines) : EndsWithTerminator(text_lines[i])}

ParaEnds == SortedSeq(TermIdx \cup {Len(text_lines)})

ParaStart(j) == IF j = 1 THEN 1 ELSE ParaEnds[j - 1] + 1

\* C6: in the punctuation fallback of smart mode the buffer is empty exactly
\* after a line whose trimmed text ends in a terminator; at the end the
\* number of paragraphs is the number of such lines plus one if the last
\* line is not one, and paragraph j is the text of the lines after the
\* (j-1)th such line up to and including the jth (or the last line).
C6_PunctuationFallback ==
    (mode = "smart" /\ branch = "punct") =>
        /\ ppc = "loop" =>
              /\ Len(paragraphs) = Cardinality({i \in TermIdx : i < k})
              /\ (current_para = <<>>) <=> (k = 1 \/ (k - 1) \in TermIdx)
        /\ ppc = "done" =>
              /\ Len(paragraphs) = Cardinality(TermIdx)
                    + (IF Len(text_lines) \in TermIdx THEN 0 ELSE 1)
              /\ Len(paragraphs) = Len(ParaEnds)
              /\ \A j \in 1..Len(paragraphs) :
                    /\ IsWrapped(paragraphs[j], add_indent)
                    /\ ParaText(paragraphs[j], add_indent) =
                          Flatten(Trimmed(SubSeq(text_lines, ParaStart(j), ParaEnds[j])))

\* the example of the spec, with a line that has trailing whitespace
C6_Witness ==
    /\ ppc = "done"
    /\ mode = "smart"
    /\ branch = "punct"
    /\ text_lines = <<L_stop, L_trail, L_plain>>
    /\ ~add_indent
    /\ paragraphs = << <<"<", "p", ">", "b", ".", "<", "/", "p", ">">>,
                       <<"<", "p", ">", "g", "!", "<", "/", "p", ">">>,
                       <<"<", "p", ">", "a", "<", "/", "p", ">">> >>

\* C7: the paragraph strings a smart segmentation returns, with force-indent
\* on or off, contain no indented line and no blank line, so that smart
\* segmentation of them selects the punctuation fallback.
C7_ReSegmentSelectsPunct ==
    (ppc = "done" /\ mode = "smart") =>
        /\ \A j \in 1..Len(paragraphs) :
              ~IsIndentedLine(paragraphs[j]) /\ ~IsBlankLine(paragraphs[j])
        /\ smart_branch(paragraphs) = "punct"

C7_Witness ==
    /\ ppc = "done"
    /\ mode = "smart"
    /\ add_indent
    /\ branch = "indent"
    /\ Len(paragraphs) >= 2

Contains(s, t) ==
    \E a \in 1..(Len(s) - Len(t) + 1) : SubSeq(s, a, a + Len(t) - 1) = t

\* C9: in every mode, at every step, each emitted paragraph has text and
\* that text contains the trimmed text of a non-blank line already read, and
\* the buffer holds no empty fragment.
C9_NoEmptyParagraph ==
    /\ \A j \in 1..Len(paragraphs) :
          /\ IsWrapped(paragraphs[j], add_indent)
          /\ ParaText(paragraphs[j], add_indent) # <<>>
          /\ \E i \in 1..(k - 1) :
                /\ NonBlankAt(i)
                /\ Contains(ParaText(paragraphs[j], add_indent), strip(text_lines[i]))
    /\ \A i \in 1..Len(current_para) : current_para[i] # <<>>

C9_Witness ==
    /\ ppc = "done"
    /\ mode = "blank"
    /\ Len(text_lines) = 4
    /\ IsBlankLine(text_lines[1])
    /\ IsBlankLine(text_lines[2])
    /\ IsIndentedLine(text_lines[3])
    /\ IsBlankLine(text_lines[4])
    /\ Len(paragraphs) = 1

\* C10: on a chapter with an indented non-blank line or a blank line, smart
\* mode returns the paragraph list blank mode returns with the same
\* force-indent setting; on the other chapters blank mode returns a single
\* paragraph.
C10_SmartEqualsBlank ==
    (ppc = "done" /\ mode = "smart") =>
        IF AnyIndented \/ AnyBlank
        THEN paragraphs = process_paragraphs(text_lines, "blank", add_indent)
        ELSE Len(process_paragraphs(text_lines, "blank", add_indent)) = 1

C10_Witness ==
    /\ ppc = "done"
    /\ mode = "smart"
    /\ branch = "indent"
    /\ AnyBlank
    /\ \E i \in 2..Len(text_lines) :
          NonBlankAt(i) /\ NonBlankAt(i - 1) /\ IsIndentedLine(text_lines[i])
    /\ Len(paragraphs) >= 3

====
